---------------------------- MODULE Spec2Model ----------------------------
(***************************************************************************)
(* Model of devilutionX's text-table data loading:                         *)
(*   - ParseInt and ParseFixed6Fraction (the numeric parsers),             *)
(*   - ExperienceData and ReloadExperienceData (Source/playerdat.cpp).     *)
(*                                                                         *)
(* Text is a sequence of one-character strings.  Integers wider than the   *)
(* model checker's own are kept as two 16-bit limbs (hi, lo) with a sign,  *)
(* so that uint32_t keeps its full range.                                  *)
(***************************************************************************)
EXTENDS Integers, Sequences, FiniteSets, TLC

(***************************************************************************)
(* Bounds of the model.                                                    *)
(***************************************************************************)
\* longest input handed to ParseFixed6Fraction, drawn over FracChars
MaxFracLen == 8
\* longest input handed to ParseInt, drawn over IntChars
MaxIntLen == 4
\* most header cells of the experience file
MaxHeaderLen == 2
\* most data rows of the experience file
MaxRows == 3
\* the highest level set in a table built by calls
MaxLevelArg == 3
\* most data rows of the player file
MaxPlayerRows == 2

(***************************************************************************)
(* Characters.                                                             *)
(***************************************************************************)
DigitChars == <<"0", "1", "2", "3", "4", "5", "6", "7", "8", "9">>

\* character >= '0' && character <= '9'
IsDigit(c) == \E i \in 1..10 : DigitChars[i] = c

\* str[0] - '0'
DigitValue(c) == (CHOOSE i \in 1..10 : DigitChars[i] = c) - 1

Pow10(n) == 10 ^ n

\* const char **endOfParse = nullptr: no cursor is written; a written cursor
\* is an offset 0..Len(str) from the start of the input
Nullptr == -1

RECURSIVE CountLeadingDigits(_)
\* std::find_if_not(first, last, isDigit) - first
CountLeadingDigits(s) ==
    IF s # <<>> /\ IsDigit(Head(s)) THEN 1 + CountLeadingDigits(Tail(s)) ELSE 0

\* every string over the character set cs of length 0..n
StringsUpTo(cs, n) == UNION {[1..k -> cs] : k \in 0..n}

(***************************************************************************)
(* ParseFixed6Fraction                                                     *)
(***************************************************************************)
\* the loop bound and the normalisation width of ParseFixed6Fraction
FractionDigits == 7
\* half the step between representable values, 10^7 / 128
HalfStep == 78125
\* the step between representable values, 10^7 / 64
Step == 156250

RECURSIVE ReadDigits(_, _, _)
\* while (!str.empty() && numDigits < 7) { ... }: what is left of str, the
\* digits read and their value (7 digits are far below the width of uint32_t)
ReadDigits(str, numDigits, decimalFraction) ==
    IF str # <<>> /\ numDigits < FractionDigits /\ IsDigit(Head(str))
    THEN ReadDigits(Tail(str), numDigits + 1,
                    decimalFraction * 10 + DigitValue(Head(str)))
    ELSE [str |-> str, numDigits |-> numDigits, decimalFraction |-> decimalFraction]

\* mutant: short inputs are not scaled up to 7 places
NormaliseNoScale(numDigits, decimalFraction) == decimalFraction

\* if (numDigits < 7) decimalFraction *= std::pow(10U, 7U - numDigits);
Normalise(numDigits, decimalFraction) ==
    IF numDigits < FractionDigits
    THEN decimalFraction * Pow10(FractionDigits - numDigits)
    ELSE decimalFraction

\* mutant: plain truncation, the half step is not added
RoundToFixed6Truncating(decimalFraction) == (decimalFraction \div Step) % 256

\* mutant: a whole step is added instead of half of one
RoundToFixed6WholeStep(decimalFraction) == ((decimalFraction + Step) \div Step) % 256

\* mutant: the result is clamped to the 6 fraction bits
RoundToFixed6Clamped(decimalFraction) ==
    IF (decimalFraction + HalfStep) \div Step > 63 THEN 63
    ELSE (decimalFraction + HalfStep) \div Step

\* return (decimalFraction + 78125) / 156250;   (converted to uint8_t)
RoundToFixed6(decimalFraction) == ((decimalFraction + HalfStep) \div Step) % 256

\* mutant: the cursor stops where the loop stopped
FractionEndOfParseAtLoopEnd(str, rest) == Len(str) - Len(rest)

\* *endOfParse = std::find_if_not(str.data(), str.data() + str.size(), isDigit)
\* as an offset from the start of the input; rest is str after the loop
FractionEndOfParse(str, rest) == (Len(str) - Len(rest)) + CountLeadingDigits(rest)

\* the call as a whole: the value returned and the cursor written
\* (hasEnd is endOfParse != nullptr)
ParseFixed6Fraction(str, hasEnd) ==
    LET r == ReadDigits(str, 0, 0)
    IN  [value      |-> RoundToFixed6(Normalise(r.numDigits, r.decimalFraction)),
         endOfParse |-> IF hasEnd THEN FractionEndOfParse(str, r.str) ELSE Nullptr]

(***************************************************************************)
(* Integers of up to 32 bits: a sign and a magnitude of two 16-bit limbs.  *)
(* big marks a magnitude of 2^32 or more (it fits no integer type here).   *)
(***************************************************************************)
LimbBase == 2 ^ 16

Mag(hi, lo) == [big |-> FALSE, hi |-> hi, lo |-> lo]

\* m * 10 + d
MagPush(m, d) ==
    LET lo2 == m.lo * 10 + d
        hi2 == m.hi * 10 + lo2 \div LimbBase
    IN  IF m.big \/ hi2 >= LimbBase
        THEN [big |-> TRUE, hi |-> 0, lo |-> 0]
        ELSE Mag(hi2, lo2 % LimbBase)

MagLess(a, b) ==
    /\ ~a.big
    /\ \/ b.big
       \/ a.hi < b.hi
       \/ a.hi = b.hi /\ a.lo < b.lo

\* 2^b for b in 0..32
MagPow2(b) ==
    IF b < 16 THEN Mag(0, 2 ^ b)
    ELSE IF b < 32 THEN Mag(2 ^ (b - 16), 0)
    ELSE [big |-> TRUE, hi |-> 0, lo |-> 0]

Num(neg, m) == [neg |-> neg /\ (m.hi # 0 \/ m.lo # 0), hi |-> m.hi, lo |-> m.lo]

NumOfInt(i) ==
    LET a == IF i < 0 THEN -i ELSE i
    IN  Num(i < 0, Mag(a \div LimbBase, a % LimbBase))

NumMag(a) == Mag(a.hi, a.lo)

\* a number as an integer of the checker (for numbers below 2^31 only)
NumToInt(a) == (IF a.neg THEN -1 ELSE 1) * (a.hi * LimbBase + a.lo)

\* a < b
NumLess(a, b) ==
    IF a.neg # b.neg THEN a.neg
    ELSE IF a.neg THEN MagLess(NumMag(b), NumMag(a))
    ELSE MagLess(NumMag(a), NumMag(b))

(***************************************************************************)
(* The integer types ParseInt is instantiated with.                        *)
(***************************************************************************)
Int8T   == [signed |-> TRUE,  bits |-> 8]
UInt8T  == [signed |-> FALSE, bits |-> 8]
UInt32T == [signed |-> FALSE, bits |-> 32]

\* std::numeric_limits<IntT>::min()
NumericLimitsMin(T) ==
    IF T.signed THEN Num(TRUE, MagPow2(T.bits - 1)) ELSE Num(FALSE, Mag(0, 0))

\* std::numeric_limits<IntT>::max(): 2^b - 1, b the number of value bits
NumericLimitsMax(T) ==
    LET b == IF T.signed THEN T.bits - 1 ELSE T.bits
    IN  IF b <= 16 THEN Num(FALSE, Mag(0, 2 ^ b - 1))
        ELSE Num(FALSE, Mag(2 ^ (b - 16) - 1, LimbBase - 1))

(***************************************************************************)
(* std::from_chars(first, last, value) for an integer type, base 10        *)
(***************************************************************************)
RECURSIVE Magnitude(_, _)
\* the digits of s accumulated most significant first, starting from m
Magnitude(s, m) ==
    IF s = <<>> THEN m ELSE Magnitude(Tail(s), MagPush(m, DigitValue(Head(s))))

\* mutant: the minus sign is taken for every type, also an unsigned one
TakesMinusAnyType(str, T) == str # <<>> /\ Head(str) = "-"

\* mutant: the minus sign is never taken
TakesMinusNever(str, T) == FALSE

\* the minus sign is recognised for signed types only; no plus sign, no
\* leading whitespace
TakesMinus(str, T) == T.signed /\ str # <<>> /\ Head(str) = "-"

\* whether the literal's value is representable in T
Representable(neg, m, T) ==
    LET b == IF T.signed THEN T.bits - 1 ELSE T.bits
    IN  \/ MagLess(m, MagPow2(b))
        \/ neg /\ m = MagPow2(b)

\* ptr is an offset from first.  On result_out_of_range and on
\* invalid_argument value is left as it was: uninitialised in ParseInt,
\* which does not read it on those paths.
FromChars(str, T) ==
    LET neg  == TakesMinus(str, T)
        skip == IF neg THEN 1 ELSE 0
        n    == CountLeadingDigits(SubSeq(str, skip + 1, Len(str)))
        m    == Magnitude(SubSeq(str, skip + 1, skip + n), Mag(0, 0))
    IN  IF n = 0
        THEN [ec |-> "invalid_argument", ptr |-> 0, value |-> "uninitialised"]
        ELSE IF ~Representable(neg, m, T)
        THEN [ec |-> "result_out_of_range", ptr |-> skip + n, value |-> "uninitialised"]
        ELSE [ec |-> "ok", ptr |-> skip + n, value |-> Num(neg, m)]

(***************************************************************************)
(* ParseInt                                                                *)
(***************************************************************************)
\* tl::expected<IntT, ParseIntError>
Unexpected(e) == [ok |-> FALSE, error |-> e, value |-> Num(FALSE, Mag(0, 0))]
Expected(v) == [ok |-> TRUE, error |-> "none", value |-> v]

\* mutant: the caller's bounds are not compared
ParseIntOutcomeNoBounds(r, min, max) ==
    IF r.ec = "invalid_argument" THEN Unexpected("ParseError")
    ELSE IF r.ec = "result_out_of_range" THEN Unexpected("OutOfRange")
    ELSE Expected(r.value)

\* mutant: the two errors are told apart the wrong way round
ParseIntOutcomeSwapped(r, min, max) ==
    IF r.ec = "invalid_argument" THEN Unexpected("OutOfRange")
    ELSE IF r.ec = "result_out_of_range" THEN Unexpected("ParseError")
    ELSE IF NumLess(r.value, min) \/ NumLess(max, r.value) THEN Unexpected("OutOfRange")
    ELSE Expected(r.value)

\* the three tests on result.ec and value, in the order of the code
ParseIntOutcome(r, min, max) ==
    IF r.ec = "invalid_argument" THEN Unexpected("ParseError")
    ELSE IF \/ r.ec = "result_out_of_range"
            \/ NumLess(r.value, min)
            \/ NumLess(max, r.value)
    THEN Unexpected("OutOfRange")
    ELSE IF r.ec # "ok" THEN Unexpected("ParseError")
    ELSE Expected(r.value)

\* if (endOfParse != nullptr) *endOfParse = result.ptr;
ParseIntEndOfParse(r, hasEnd) == IF hasEnd THEN r.ptr ELSE Nullptr

ParseInt(str, T, min, max, hasEnd) ==
    LET r == FromChars(str, T)
    IN  [result     |-> ParseIntOutcome(r, min, max),
         endOfParse |-> ParseIntEndOfParse(r, hasEnd)]

(***************************************************************************)
(* State.                                                                  *)
(*                                                                         *)
(* pc is the position of the running function.  A call of one of the       *)
(* parsers is (str, hasEnd, intT, min, max) with its outcome in ret once   *)
(* pc = "done".  The other variables are those of ReloadExperienceData:    *)
(*   levelThresholds   ExperienceData.levelThresholds                      *)
(*   openOk, header    the file: whether it opens, its header cells        *)
(*   rowsRead          the number of data rows the iteration has yielded   *)
(*   columns           std::array<ColumnDefinition, ExpectedColumnCount>   *)
(*   record            the DataFileRecord of the current iteration         *)
(*   fieldIt, col      the FieldIterator (a field index from 0, the end    *)
(*                     being Len(record)) and the index into columns       *)
(*   level, experience, skipRecord   the locals of the row loop            *)
(*   error             what was reported as fatal, if anything             *)
(*   readLog           history: the fields dereferenced in this row, each  *)
(*                     with the column type it was read as                 *)
(*   lastRowFor        history: for each level, the experience of the last *)
(*                     row of the file so far that gives that level        *)
(* ReloadPlayerData has the same file and row loop variables, and          *)
(*   clazz, characterStats   the locals of its row loop                    *)
(*   PlayersData       the array of PlayerData, one entry per HeroClass    *)
(* and a call of getThresholdForLevel leaves in                            *)
(*   query             history: its argument and the index of              *)
(*                     levelThresholds it read, Nullptr if it read none    *)
(***************************************************************************)
VARIABLES pc, str, hasEnd, intT, min, max, ret,
          levelThresholds, openOk, header, rowsRead, columns, record,
          fieldIt, col, level, experience, skipRecord, error,
          readLog, lastRowFor,
          clazz, characterStats, PlayersData, query

args == <<str, hasEnd, intT, min, max>>

file == <<openOk, header>>

locals == <<record, fieldIt, col, level, experience, skipRecord, readLog>>

loader == <<levelThresholds, openOk, header, rowsRead, columns, record,
            fieldIt, col, level, experience, skipRecord, error,
            readLog, lastRowFor>>

player == <<clazz, characterStats, PlayersData>>

vars == <<pc, args, ret, loader, player, query>>

NoError == [kind |-> "none", column |-> "", text |-> <<>>]

\* no call of getThresholdForLevel has been made
NoQuery == [level |-> 0, index |-> Nullptr]

\* enum class HeroClass, in the order of the per-class tables
HeroClass == <<"Warrior", "Rogue", "Sorcerer", "Monk", "Bard", "Barbarian">>

\* static_cast<HeroClass>(-1)
NoHeroClass == -1

\* the members of PlayerData that ReloadPlayerData writes, in the order of
\* the columns they are read from
PlayerDataMember ==
    <<"className", "baseStr", "baseMag", "baseDex", "baseVit",
      "maxStr", "maxMag", "maxDex", "maxVit",
      "adjLife", "adjMana", "lvlLife", "lvlMana",
      "chrLife", "chrMana", "itmLife", "itmMana">>

\* PlayerData characterStats {}: no class name, every number 0
ValueInitialisedPlayerData ==
    [m \in {PlayerDataMember[i] : i \in 1..Len(PlayerDataMember)} |->
        IF m = "className" THEN "" ELSE 0]

\* PlayersData as static initialisation leaves it
PlayerIdle ==
    /\ clazz = NoHeroClass
    /\ characterStats = ValueInitialisedPlayerData
    /\ PlayersData = [c \in 0..(Len(HeroClass) - 1) |-> ValueInitialisedPlayerData]

\* the loader's variables while only a parser is run
LoaderIdle ==
    /\ PlayerIdle
    /\ query = NoQuery
    /\ levelThresholds = <<>>
    /\ openOk = TRUE
    /\ header = <<>>
    /\ rowsRead = 0
    /\ columns = <<>>
    /\ record = <<>>
    /\ fieldIt = 0
    /\ col = 1
    /\ level = 0
    /\ experience = Num(FALSE, Mag(0, 0))
    /\ skipRecord = FALSE
    /\ error = NoError
    /\ readLog = <<>>
    /\ lastRowFor = {}

(***************************************************************************)
(* ExperienceData                                                          *)
(***************************************************************************)
\* std::numeric_limits<uint8_t>::max()
UInt8Max == NumToInt(NumericLimitsMax(UInt8T))

\* std::numeric_limits<uint32_t>::max(), the filler of resize
UInt32Max == NumericLimitsMax(UInt32T)

Min2(a, b) == IF a < b THEN a ELSE b

\* uint8_t getMaxLevel() const
getMaxLevel(thresholds) == Min2(Len(thresholds), UInt8Max)

\* the index getThresholdForLevel reads for level > 0 (from 0)
ThresholdIndex(thresholds, lvl) == Min2(lvl - 1, getMaxLevel(thresholds))

\* uint32_t getThresholdForLevel(unsigned level) const, where the index is
\* within the vector
getThresholdForLevel(thresholds, lvl) ==
    IF lvl > 0 THEN thresholds[ThresholdIndex(thresholds, lvl) + 1]
    ELSE Num(FALSE, Mag(0, 0))

\* levelThresholds.resize(n, fill) for n > size
Resize(thresholds, n, fill) ==
    [i \in 1..n |-> IF i <= Len(thresholds) THEN thresholds[i] ELSE fill]

\* mutant: the level is used as the index, without the - 1
setThresholdForLevelOffByOne(thresholds, lvl, exp) ==
    IF lvl > 0
    THEN [(IF lvl + 1 > Len(thresholds) THEN Resize(thresholds, lvl + 1, UInt32Max)
           ELSE thresholds) EXCEPT ![lvl + 1] = exp]
    ELSE thresholds

\* void setThresholdForLevel(unsigned level, uint32_t experience)
setThresholdForLevel(thresholds, lvl, exp) ==
    IF lvl > 0
    THEN [(IF lvl > Len(thresholds) THEN Resize(thresholds, lvl, UInt32Max)
           ELSE thresholds) EXCEPT ![lvl] = exp]
    ELSE thresholds

\* uint32_t GetNextExperienceThresholdForLevel(unsigned level)
GetNextExperienceThresholdForLevel(lvl) == getThresholdForLevel(levelThresholds, lvl)

\* uint8_t GetMaximumCharacterLevel()
GetMaximumCharacterLevel == getMaxLevel(levelThresholds)

(***************************************************************************)
(* The experience table's schema.                                          *)
(***************************************************************************)
\* enum class ExperienceColumn, in declaration order
ExperienceColumn == <<"Level", "Experience">>

\* enum_size<ExperienceColumn>::value
ExpectedColumnCount == Len(ExperienceColumn)

\* mutant: the names are compared without regard to case
mapExperienceColumnFromNameAnyCase(name) ==
    IF name \in {"Level", "level"}
    THEN [ok |-> TRUE, value |-> "Level", error |-> "none"]
    ELSE IF name \in {"Experience", "experience"}
    THEN [ok |-> TRUE, value |-> "Experience", error |-> "none"]
    ELSE [ok |-> FALSE, value |-> "none", error |-> "UnknownColumn"]

\* tl::expected<ExperienceColumn, ColumnDefinition::Error>
\*   mapExperienceColumnFromName(std::string_view name)
mapExperienceColumnFromName(name) ==
    IF name = "Level" THEN [ok |-> TRUE, value |-> "Level", error |-> "none"]
    ELSE IF name = "Experience" THEN [ok |-> TRUE, value |-> "Experience", error |-> "none"]
    ELSE [ok |-> FALSE, value |-> "none", error |-> "UnknownColumn"]

(***************************************************************************)
(* The player table's schema.                                              *)
(***************************************************************************)
\* enum class PlayerDataColumn, in declaration order
PlayerDataColumn ==
    <<"Class", "BaseStrength", "BaseMagic", "BaseDexterity", "BaseVitality",
      "MaximumStrength", "MaximumMagic", "MaximumDexterity", "MaximumVitality",
      "LifeAdjustment", "ManaAdjustment", "LifePerLevel", "ManaPerLevel",
      "LifePerStat", "ManaPerStat", "LifeItemBonus", "ManaItemBonus">>

\* the header text mapPlayerDataColumnFromName compares for each column, which
\* is also the column name the row loop reports a field error with
PlayerDataColumnName ==
    <<"Class", "Base Strength", "Base Magic", "Base Dexterity", "Base Vitality",
      "Maximum Strength", "Maximum Magic", "Maximum Dexterity", "Maximum Vitality",
      "Base Life", "Base Mana", "Life Per Level", "Mana Per Level",
      "Life Per Player Stat", "Mana Per Player Stat",
      "Life Per Item Stat", "Mana Per Item Stat">>

\* enum_size<PlayerDataColumn>::value
PlayerDataColumnCount == Len(PlayerDataColumn)

\* the position of an enumerator in PlayerDataColumn, 0 if it is none
PlayerDataColumnIndex(type) ==
    IF \E i \in 1..PlayerDataColumnCount : PlayerDataColumn[i] = type
    THEN CHOOSE i \in 1..PlayerDataColumnCount : PlayerDataColumn[i] = type
    ELSE 0

\* tl::expected<PlayerDataColumn, ColumnDefinition::Error>
\*   mapPlayerDataColumnFromName(std::string_view name)
mapPlayerDataColumnFromName(name) ==
    IF \E i \in 1..PlayerDataColumnCount : PlayerDataColumnName[i] = name
    THEN [ok |-> TRUE, error |-> "none",
          value |-> PlayerDataColumn[CHOOSE i \in 1..PlayerDataColumnCount :
                                        PlayerDataColumnName[i] = name]]
    ELSE [ok |-> FALSE, value |-> "none", error |-> "UnknownColumn"]

\* the text of a field that is a word: a text without digit, sign or point
\* is kept as one symbol, which no parser takes for a digit
Word(w) == <<w>>

\* the if-chain of case PlayerDataColumn::Class over *field: the class a
\* field names (from 0), NoHeroClass if it names none
HeroClassOfField(text) ==
    IF \E i \in 1..Len(HeroClass) : Word(HeroClass[i]) = text
    THEN (CHOOSE i \in 1..Len(HeroClass) : Word(HeroClass[i]) = text) - 1
    ELSE NoHeroClass

ExpansionText == Word("Expansion")

\* mutant: no field marks a row to be skipped
IsExpansionMarkerNever(text) == FALSE

\* *field == "Expansion"
IsExpansionMarker(text) == text = ExpansionText

(***************************************************************************)
(* The data file engine (data/file.hpp), which playerdat.cpp calls.        *)
(***************************************************************************)
\* the mapper and the number of slots a loader hands to parseHeader
MapColumnFromName(schema, name) ==
    IF schema = "PlayerData" THEN mapPlayerDataColumnFromName(name)
    ELSE mapExperienceColumnFromName(name)

SlotCount(schema) ==
    IF schema = "PlayerData" THEN PlayerDataColumnCount ELSE ExpectedColumnCount

\* a default-constructed ColumnDefinition, for a slot parseHeader left
DefaultColumnDefinition == [type |-> "unset", skipLength |-> 0]

RECURSIVE ResolveHeader(_, _, _, _, _)
\* the header cells from physical index p (from 1) on; last is the physical
\* index of the schema column resolved before, out the definitions so far
ResolveHeader(schema, cells, p, last, out) ==
    IF p > Len(cells) THEN [ok |-> TRUE, error |-> NoError, columns |-> out]
    ELSE LET m == MapColumnFromName(schema, cells[p])
         IN  IF ~m.ok
             THEN [ok |-> FALSE, columns |-> out,
                   error |-> [kind |-> m.error, column |-> cells[p], text |-> <<>>]]
             ELSE IF \E i \in 1..Len(out) : out[i].type = m.value
             THEN [ok |-> FALSE, columns |-> out,
                   error |-> [kind |-> "DuplicateColumn", column |-> cells[p], text |-> <<>>]]
             ELSE IF Len(out) = SlotCount(schema)
             THEN [ok |-> FALSE, columns |-> out,
                   error |-> [kind |-> "NotEnoughColumns", column |-> "", text |-> <<>>]]
             ELSE ResolveHeader(schema, cells, p + 1, p,
                      Append(out, [type |-> m.value, skipLength |-> p - (last + 1)]))

\* dataFile.parseHeader<Column>(begin, end, mapper): the definitions in
\* physical order, the slots left over as constructed
parseHeader(schema, cells) ==
    LET r == ResolveHeader(schema, cells, 1, 0, <<>>)
    IN  [r EXCEPT !.columns =
            [i \in 1..SlotCount(schema) |->
                IF i <= Len(r.columns) THEN r.columns[i] ELSE DefaultColumnDefinition]]

\* fieldIt += n: forward by n fields, stopping at the end
FieldIteratorAdvance(it, n, rec) == Min2(it + n, Len(rec))

\* field.parseInt(destination): ParseInt with the limits of the destination's
\* type over the whole text of the field
FieldParseInt(text, T) ==
    LET r == ParseInt(text, T, NumericLimitsMin(T), NumericLimitsMax(T), TRUE)
    IN  IF r.result.ok /\ r.endOfParse # Len(text)
        THEN Unexpected("ParseError")
        ELSE r.result

\* field.parseFixed6(destination): the integer part by ParseInt and, after a
\* '.', the fraction by ParseFixed6Fraction, combined as
\* integerPart * 64 + fraction with the sign applied to the whole; the whole
\* text of the field must be consumed.  The value is an integer here.
FieldParseFixed6(text) ==
    LET T    == Int8T
        i    == ParseInt(text, T, NumericLimitsMin(T), NumericLimitsMax(T), TRUE)
        rest == SubSeq(text, i.endOfParse + 1, Len(text))
        neg  == text # <<>> /\ Head(text) = "-"
        whole == 64 * (IF neg THEN -NumToInt(i.result.value) ELSE NumToInt(i.result.value))
        f    == ParseFixed6Fraction(Tail(rest), TRUE)
        sign == IF neg THEN -1 ELSE 1
        failed(e) == [ok |-> FALSE, error |-> e, value |-> 0]
    IN  IF ~i.result.ok THEN failed(i.result.error)
        ELSE IF rest = <<>> THEN [ok |-> TRUE, error |-> "none", value |-> sign * whole]
        ELSE IF Head(rest) # "." THEN failed("ParseError")
        ELSE IF f.endOfParse # Len(rest) - 1 THEN failed("ParseError")
        ELSE [ok |-> TRUE, error |-> "none", value |-> sign * (whole + f.value)]


(***************************************************************************)
(* ParseFixed6Fraction on bounded inputs.                                  *)
(***************************************************************************)
FracChars == {"0", "9", "x"}

\* n as a zero-padded decimal string of 7 digits
Format7(n) == [i \in 1..7 |-> DigitChars[((n \div Pow10(7 - i)) % 10) + 1]]

\* k in 0..63 with round(k/64 * 10,000,000) formatted
RoundTrips == {<<k, Format7((k * 20000000 + 64) \div 128)>> : k \in 0..63}

RoundTripInputs == {p[2] : p \in RoundTrips}

\* the fractions at and just below each point where the result changes
TieInputs == {Format7(k * Step + HalfStep - e) : k \in 0..63, e \in {0, 1}}

ExampleInputs == {<<"5">>, <<"5", "0">>, <<"0", "5">>, <<"5", "x", "5">>,
                  <<"5", "0", "0", "0", "0", "0", "0">>,
                  <<"5", "0", "0", "0", "0", "0", "1">>,
                  <<"9", "9", "2", "1", "8", "7", "4", "7">>,
                  <<"1", "2", "3", "4", "5", "6", "7", "8", "x", "9">>}

FractionInputs ==
    StringsUpTo(FracChars, MaxFracLen) \cup RoundTripInputs \cup TieInputs
        \cup ExampleInputs

InitFixed6 ==
    /\ pc = "call"
    /\ str \in FractionInputs
    /\ hasEnd \in BOOLEAN
    /\ intT = UInt8T
    /\ min = NumericLimitsMin(UInt8T)
    /\ max = NumericLimitsMax(UInt8T)
    /\ ret = [value |-> 0, endOfParse |-> Nullptr]
    /\ LoaderIdle

CallParseFixed6Fraction ==
    /\ pc = "call"
    /\ ret' = ParseFixed6Fraction(str, hasEnd)
    /\ pc' = "done"
    /\ UNCHANGED <<args, loader, player, query>>

NextFixed6 == CallParseFixed6Fraction

SpecFixed6 == InitFixed6 /\ [][NextFixed6]_vars

(***************************************************************************)
(* ParseInt on bounded inputs.                                             *)
(***************************************************************************)
IntChars == {"-", "0", "1", "2", "5", "8", "9", " ", "a"}

\* the instantiations and caller bounds tried: the defaults of each type and
\* narrower bounds, one of them a signed type with min >= 0
IntCalls ==
    {<<UInt8T, 0, 255>>, <<UInt8T, 10, 100>>,
     <<Int8T, -128, 127>>, <<Int8T, -10, 10>>, <<Int8T, 0, 100>>}

InitParseInt ==
    /\ pc = "call"
    /\ str \in StringsUpTo(IntChars, MaxIntLen)
    /\ hasEnd \in BOOLEAN
    /\ \E c \in IntCalls :
          /\ intT = c[1]
          /\ min = NumOfInt(c[2])
          /\ max = NumOfInt(c[3])
    /\ ret = [result |-> Unexpected("none"), endOfParse |-> Nullptr]
    /\ LoaderIdle

CallParseInt ==
    /\ pc = "call"
    /\ ret' = ParseInt(str, intT, min, max, hasEnd)
    /\ pc' = "done"
    /\ UNCHANGED <<args, loader, player, query>>

NextParseInt == CallParseInt

SpecParseInt == InitParseInt /\ [][NextParseInt]_vars

(***************************************************************************)
(* Reference arithmetic for the claims, independent of the parsers.        *)
(***************************************************************************)
AllDigits(s) == \A i \in 1..Len(s) : IsDigit(s[i])

RECURSIVE DecimalValue(_)
\* the number a string of digits denotes (least significant digit last)
DecimalValue(s) ==
    IF s = <<>> THEN 0
    ELSE DecimalValue(SubSeq(s, 1, Len(s) - 1)) * 10 + DigitValue(s[Len(s)])

\* the digits ParseFixed6Fraction is said to use: the first 7 leading ones
UsedDigits(s) == SubSeq(s, 1, Min2(CountLeadingDigits(s), 7))

\* floor(f * 64 + 1/2) for the fraction f = 0.s of a digit string s
RoundedSixtyFourths(s) ==
    (128 * DecimalValue(s) + Pow10(Len(s))) \div (2 * Pow10(Len(s)))

Zeros(n) == [i \in 1..n |-> "0"]

(***************************************************************************)
(* Claims about ParseFixed6Fraction (checked under SpecFixed6).            *)
(***************************************************************************)
\* C1 as stated: ParseFixed6Fraction never returns a value outside 0..63,
\* whatever the input, and "9999999" yields 63.
C1_NeverAbove63 ==
    pc = "done" =>
        /\ ret.value \in 0..63
        /\ str = Format7(9999999) => ret.value = 63

\* C1 amended: the result is in 0..64, and it is 64 exactly when the digits
\* used denote a fraction of at least 0.9921875 (63.5/64); "9999999" yields 64.
C1_AtMost64 ==
    pc = "done" =>
        /\ ret.value \in 0..64
        /\ ret.value = 64 <=>
              128 * DecimalValue(UsedDigits(str)) >= 127 * Pow10(Len(UsedDigits(str)))
        /\ str = Format7(9999999) => ret.value = 64

C1_Witness == pc = "done" /\ str = Format7(9999999) /\ ret.value = 64

\* C2: for a string of 1 to 7 digits read as a fraction f, the result is
\* floor(f*64 + 1/2), which is (d + 78125) / 156250 truncated, d the digits
\* normalised to 7 places.
C2_RoundToNearestTiesUp ==
    (pc = "done" /\ AllDigits(str) /\ Len(str) \in 1..7) =>
        /\ ret.value = RoundedSixtyFourths(str)
        /\ ret.value = (DecimalValue(str) * Pow10(7 - Len(str)) + 78125) \div 156250

\* a tie: 0.0078125 * 64 = 0.5 rounds up to 1
C2_Witness == pc = "done" /\ str = Format7(78125) /\ ret.value = 1

\* C6: a digit string of fewer than 7 digits gives the same result with
\* zeros appended up to 7 digits; "5", "50", "5000000", "5000001" give 32.
C6_TrailingZeroInvariance ==
    pc = "done" =>
        /\ (AllDigits(str) /\ Len(str) < 7) =>
              \A j \in 0..(7 - Len(str)) :
                  ret.value = ParseFixed6Fraction(str \o Zeros(j), hasEnd).value
        /\ str \in {<<"5">>, <<"5", "0">>, Format7(5000000), Format7(5000001)} =>
              ret.value = 32

C6_Witness == pc = "done" /\ str = <<"5">> /\ ret.value = 32

\* C7: for every k in 0..63, round(k/64 * 10,000,000) formatted as 7 digits
\* parses back to k.
C7_RoundTrip ==
    pc = "done" => \A p \in RoundTrips : str = p[2] => ret.value = p[1]

C7_Witness == pc = "done" /\ str = Format7(9843750) /\ ret.value = 63

\* C8: with more than 7 leading digits the result is that of the first 7
\* alone (changing the 8th character changes nothing), and the cursor stands
\* after all leading digits: at the first character that is no digit, or at
\* the end of the input.
C8_ExcessDigits ==
    (pc = "done" /\ CountLeadingDigits(str) > 7) =>
        /\ ret.value = RoundedSixtyFourths(SubSeq(str, 1, 7))
        /\ \A c \in FracChars :
              ParseFixed6Fraction([str EXCEPT ![8] = c], hasEnd).value = ret.value
        /\ hasEnd =>
              /\ ret.endOfParse = CountLeadingDigits(str)
              /\ ret.endOfParse = Len(str) \/ ~IsDigit(str[ret.endOfParse + 1])

C8_Witness ==
    /\ pc = "done" /\ hasEnd
    /\ str = <<"1", "2", "3", "4", "5", "6", "7", "8", "x", "9">>
    /\ ret.endOfParse = 8
    /\ ret.value = 8

(***************************************************************************)
(* Claims about ParseInt (checked under SpecParseInt).                     *)
(***************************************************************************)
\* a decimal literal of type T: digits, after a '-' if T is signed
ValidLiteral(s, T) ==
    /\ s # <<>>
    /\ \/ AllDigits(s)
       \/ T.signed /\ Head(s) = "-" /\ Len(s) >= 2 /\ AllDigits(Tail(s))

LiteralValue(s) ==
    IF Head(s) = "-" THEN -DecimalValue(Tail(s)) ELSE DecimalValue(s)

\* the input begins with a literal of type T
StartsWithLiteral(s, T) ==
    /\ s # <<>>
    /\ \/ IsDigit(s[1])
       \/ T.signed /\ s[1] = "-" /\ Len(s) >= 2 /\ IsDigit(s[2])

\* C3: a valid decimal literal whose value lies in [min,max] parses to
\* exactly that value, and the cursor is set just after the literal: its
\* digit count, plus one for a sign.
C3_ValueAndCursor ==
    (/\ pc = "done"
     /\ ValidLiteral(str, intT)
     /\ LiteralValue(str) >= NumToInt(min)
     /\ LiteralValue(str) <= NumToInt(max)) =>
        /\ ret.result.ok
        /\ NumToInt(ret.result.value) = LiteralValue(str)
        /\ hasEnd => ret.endOfParse = Len(str)

C3_Witness ==
    /\ pc = "done" /\ hasEnd /\ intT = Int8T
    /\ str = <<"-", "1", "2", "8">>
    /\ ret.result.ok /\ NumToInt(ret.result.value) = -128
    /\ ret.endOfParse = 4

\* C4: a valid literal whose value is above max or below min fails with
\* OutOfRange, whether or not the value fits the width of the type; no
\* value outside [min,max] is ever returned.
C4_OutOfRange ==
    pc = "done" =>
        /\ (/\ ValidLiteral(str, intT)
            /\ \/ LiteralValue(str) < NumToInt(min)
               \/ LiteralValue(str) > NumToInt(max)) =>
              (~ret.result.ok /\ ret.result.error = "OutOfRange")
        /\ ret.result.ok =>
              /\ NumToInt(ret.result.value) >= NumToInt(min)
              /\ NumToInt(ret.result.value) <= NumToInt(max)

\* 200 fits uint8_t and lies outside the caller's [10,100]
C4_Witness ==
    /\ pc = "done" /\ intT = UInt8T /\ max = NumOfInt(100)
    /\ str = <<"2", "0", "0">>
    /\ ~ret.result.ok /\ ret.result.error = "OutOfRange"

\* C5: an input that does not begin with a valid integer literal (empty, a
\* leading letter, a leading space) fails with ParseError, never with
\* OutOfRange or a value; leading whitespace is not skipped.
C5_ParseError ==
    (pc = "done" /\ ~StartsWithLiteral(str, intT)) =>
        /\ ~ret.result.ok
        /\ ret.result.error = "ParseError"
        /\ hasEnd => ret.endOfParse = 0

C5_Witness ==
    /\ pc = "done" /\ str = <<" ", "5">>
    /\ ~ret.result.ok /\ ret.result.error = "ParseError"

\* C16 as stated: a leading '-' belongs to the literal only if the type is
\* signed and min < 0; for an unsigned type, or a signed type called with
\* min >= 0, an input starting with '-' fails with ParseError.
C16_MinusNeedsNegativeMin ==
    (/\ pc = "done"
     /\ str # <<>> /\ Head(str) = "-"
     /\ ~intT.signed \/ NumToInt(min) >= 0) =>
        (~ret.result.ok /\ ret.result.error = "ParseError")

\* C16 amended: a leading '-' belongs to the literal exactly if the type is
\* signed, whatever min is.  For an unsigned type an input starting with '-'
\* fails with ParseError and consumes nothing.  For a signed type, '-' with
\* no digit after it fails with ParseError; '-' followed by digits is
\* consumed with them and gives the value if it lies in [min,max] ("-0" is 0)
\* and OutOfRange if not, so with min >= 0 "-5" fails with OutOfRange.
C16_MinusForSignedTypes ==
    (pc = "done" /\ str # <<>> /\ Head(str) = "-") =>
        LET n == CountLeadingDigits(Tail(str))
            v == -DecimalValue(SubSeq(str, 2, n + 1))
        IN  IF ~intT.signed \/ n = 0
            THEN /\ ~ret.result.ok
                 /\ ret.result.error = "ParseError"
                 /\ hasEnd => ret.endOfParse = 0
            ELSE /\ hasEnd => ret.endOfParse = n + 1
                 /\ IF v >= NumToInt(min) /\ v <= NumToInt(max)
                    THEN ret.result.ok /\ NumToInt(ret.result.value) = v
                    ELSE ~ret.result.ok /\ ret.result.error = "OutOfRange"

\* int8_t with [0,100]: "-5" is read as -5 and is below min
C16_Witness ==
    /\ pc = "done" /\ hasEnd /\ intT = Int8T /\ min = NumOfInt(0)
    /\ str = <<"-", "5">>
    /\ ~ret.result.ok /\ ret.result.error = "OutOfRange"
    /\ ret.endOfParse = 2

(***************************************************************************)
(* ExperienceData under calls of its member functions, from the empty      *)
(* table of static initialisation.  The levels passed are 0..MaxLevelArg   *)
(* and levels around 256, where getMaxLevel stops following the size.      *)
(***************************************************************************)
SetLevelArgs == 0..MaxLevelArg \cup {UInt8Max + 2}

GetLevelArgs == 0..(MaxLevelArg + 1) \cup {UInt8Max, UInt8Max + 1, UInt8Max + 2, UInt8Max + 3}

ExperienceArgs == {NumOfInt(0), NumOfInt(2000)}

\* what a read outside the vector may return, if it returns
ArbitraryThresholds == {NumOfInt(0), NumOfInt(12345), UInt32Max}

InitExperienceData ==
    /\ pc = "idle"
    /\ str = <<>>
    /\ hasEnd = FALSE
    /\ intT = UInt32T
    /\ min = NumericLimitsMin(UInt32T)
    /\ max = NumericLimitsMax(UInt32T)
    /\ ret = [value |-> NumOfInt(0)]
    /\ LoaderIdle

\* ExperienceData.clear()
CallClear ==
    /\ pc = "idle"
    /\ levelThresholds' = <<>>
    /\ UNCHANGED <<pc, args, ret, file, rowsRead, columns, locals, error, lastRowFor,
                   player, query>>

\* ExperienceData.setThresholdForLevel(level, experience)
CallSetThresholdForLevel ==
    /\ pc = "idle"
    /\ \E lvl \in SetLevelArgs, exp \in ExperienceArgs :
          levelThresholds' = setThresholdForLevel(levelThresholds, lvl, exp)
    /\ UNCHANGED <<pc, args, ret, file, rowsRead, columns, locals, error, lastRowFor,
                   player, query>>

\* GetNextExperienceThresholdForLevel(level): a read at an index within the
\* vector returns the element; a read outside it is undefined behaviour,
\* which returns anything or does not return
CallGetThresholdForLevel ==
    /\ pc = "idle"
    /\ \E lvl \in GetLevelArgs :
          LET i == ThresholdIndex(levelThresholds, lvl)
          IN  IF lvl = 0
              THEN /\ query' = [level |-> lvl, index |-> Nullptr]
                   /\ ret' = [value |-> GetNextExperienceThresholdForLevel(lvl)]
                   /\ pc' = "returned"
              ELSE /\ query' = [level |-> lvl, index |-> i]
                   /\ IF i < Len(levelThresholds)
                      THEN /\ ret' = [value |-> GetNextExperienceThresholdForLevel(lvl)]
                           /\ pc' = "returned"
                      ELSE \/ /\ ret' \in {[value |-> v] : v \in ArbitraryThresholds}
                              /\ pc' = "returned"
                           \/ /\ ret' = ret
                              /\ pc' = "undefined"
    /\ UNCHANGED <<args, loader, player>>

\* the caller goes on
Returned ==
    /\ pc = "returned"
    /\ pc' = "idle"
    /\ query' = NoQuery
    /\ UNCHANGED <<args, ret, loader, player>>

NextExperienceData ==
    \/ CallClear
    \/ CallSetThresholdForLevel
    \/ CallGetThresholdForLevel
    \/ Returned

SpecExperienceData == InitExperienceData /\ [][NextExperienceData]_vars

(***************************************************************************)
(* Claims about ExperienceData (checked under SpecExperienceData).         *)
(***************************************************************************)
\* C17 as stated: after any sequence of clear and setThresholdForLevel
\* calls, getThresholdForLevel(level) reads levelThresholds only at an index
\* strictly less than its size, for every level, also one above the highest
\* level set and on the empty table; level 0 returns 0.
C17_ReadsWithinVector ==
    pc \in {"returned", "undefined"} =>
        /\ query.index # Nullptr => query.index < Len(levelThresholds)
        /\ query.level = 0 => ret.value = NumOfInt(0)

(***************************************************************************)
(* ReloadExperienceData on bounded files.                                  *)
(*                                                                         *)
(* The file is whether it opens, its header and its data rows.  A row is   *)
(* drawn when the iteration reaches it: the file does not change during    *)
(* the load, so this is the same as drawing all rows beforehand.  A row    *)
(* has from one field to as many fields as the header has cells.           *)
(***************************************************************************)
HeaderNames == {"Level", "Experience", "level", "Foo"}

MaxLevelText == <<"M", "a", "x", "L", "e", "v", "e", "l">>

FieldTexts == {<<"0">>, <<"1">>, <<"2">>, <<"5">>, <<"2", "0", "0", "0">>,
               MaxLevelText, <<"x">>}

Headers == UNION {[1..n -> HeaderNames] : n \in 1..MaxHeaderLen}

Records(cells) == UNION {[1..n -> FieldTexts] : n \in 1..Len(cells)}

\* ExperienceData as static initialisation leaves it, and as an earlier
\* load (of levels 1..3 with these thresholds) leaves it
EarlierThresholds == <<NumOfInt(7), NumOfInt(8), NumOfInt(9)>>

\* the header names every column of the schema exactly once
CompleteHeader(cells) ==
    /\ Len(cells) = ExpectedColumnCount
    /\ \A i \in 1..ExpectedColumnCount : \E j \in 1..Len(cells) : cells[j] = ExperienceColumn[i]

\* the physical position (from 1) of the header cell called name
PhysicalPosition(cells, name) == CHOOSE j \in 1..Len(cells) : cells[j] = name

IsNumber(text) == text # <<>> /\ AllDigits(text)

\* whether rec is a row that gives a level and its experience, going by
\* the positions of the header cells alone
GivesLevel(cells, rec) ==
    /\ CompleteHeader(cells)
    /\ Len(rec) = Len(cells)
    /\ IsNumber(rec[PhysicalPosition(cells, "Level")])
    /\ IsNumber(rec[PhysicalPosition(cells, "Experience")])

LevelGiven(cells, rec) == DecimalValue(rec[PhysicalPosition(cells, "Level")])

ExperienceGiven(cells, rec) ==
    NumOfInt(DecimalValue(rec[PhysicalPosition(cells, "Experience")]))

Init ==
    /\ pc = "start"
    /\ str = <<>>
    /\ hasEnd = FALSE
    /\ intT = UInt8T
    /\ min = NumericLimitsMin(UInt8T)
    /\ max = NumericLimitsMax(UInt8T)
    /\ ret = [value |-> 0, endOfParse |-> Nullptr]
    /\ levelThresholds \in {<<>>, EarlierThresholds}
    /\ \/ openOk = TRUE /\ header \in Headers
       \/ openOk = FALSE /\ header = <<>>
    /\ rowsRead = 0
    /\ columns = [i \in 1..ExpectedColumnCount |-> DefaultColumnDefinition]
    /\ record = <<>>
    /\ fieldIt = 0
    /\ col = 1
    /\ level = 0
    /\ experience = Num(FALSE, Mag(0, 0))
    /\ skipRecord = FALSE
    /\ error = NoError
    /\ readLog = <<>>
    /\ lastRowFor = {}
    /\ PlayerIdle
    /\ query = NoQuery

\* DataFile::reportFatalError, DataFile::reportFatalFieldError: the load
\* ends here
Fatal(e) ==
    /\ error' = e
    /\ pc' = "fatal"

\* auto dataFileResult = DataFile::load(filename); ...
Load ==
    /\ pc = "start"
    /\ IF openOk
       THEN pc' = "parseHeader" /\ UNCHANGED error
       ELSE Fatal([kind |-> "OpenFailed", column |-> "", text |-> <<>>])
    /\ UNCHANGED <<args, ret, levelThresholds, file, rowsRead, columns, locals,
                   lastRowFor, player, query>>

\* auto parseHeaderResult = dataFile.parseHeader<ExperienceColumn>(...); ...
ParseHeaderStep ==
    /\ pc = "parseHeader"
    /\ LET r == parseHeader("Experience", header)
       IN  /\ columns' = r.columns
           /\ IF r.ok
              THEN pc' = "clear" /\ UNCHANGED error
              ELSE Fatal(r.error)
    /\ UNCHANGED <<args, ret, levelThresholds, file, rowsRead, locals, lastRowFor,
                   player, query>>

\* ExperienceData.clear();
Clear ==
    /\ pc = "clear"
    /\ levelThresholds' = <<>>
    /\ pc' = "iterate"
    /\ UNCHANGED <<args, ret, file, rowsRead, columns, locals, error, lastRowFor,
                   player, query>>

\* for (DataFileRecord record : dataFile) { the locals; ...
NextRecord ==
    /\ pc = "iterate"
    /\ rowsRead < MaxRows
    /\ \E rec \in Records(header) :
          /\ record' = rec
          /\ lastRowFor' =
                IF GivesLevel(header, rec)
                THEN {q \in lastRowFor : q[1] # LevelGiven(header, rec)}
                         \cup {<<LevelGiven(header, rec), ExperienceGiven(header, rec)>>}
                ELSE lastRowFor
    /\ rowsRead' = rowsRead + 1
    /\ level' = 0
    /\ experience' = Num(FALSE, Mag(0, 0))
    /\ skipRecord' = FALSE
    /\ fieldIt' = 0
    /\ col' = 1
    /\ readLog' = <<>>
    /\ pc' = "column"
    /\ UNCHANGED <<args, ret, levelThresholds, file, columns, error, player,
                   query>>

\* the iteration is at the end of the file
EndOfFile ==
    /\ pc = "iterate"
    /\ pc' = "done"
    /\ UNCHANGED <<args, ret, loader, player, query>>

\* mutant: every Level field that is no number marks a row to be skipped
IsMaxLevelMarkerAnyText(text) == TRUE

\* *field == "MaxLevel"
IsMaxLevelMarker(text) == text = MaxLevelText

\* mutant: the columns are taken in the order the schema declares them
ColumnTypeInSchemaOrder(cols, c) == ExperienceColumn[c]

\* static_cast<ExperienceColumn>(column)
ColumnType(cols, c) == cols[c].type

\* mutant: the iterator is not moved past the field it read
AfterFieldStay(it) == it

\* ++fieldIt;
AfterField(it) == it + 1

\* one pass of  for (auto &column : columns) { ... }
Column ==
    /\ pc = "column"
    /\ LET it == FieldIteratorAdvance(fieldIt, columns[col].skipLength, record)
           type == ColumnType(columns, col)
           continue ==
               /\ fieldIt' = AfterField(it)
               /\ col' = col + 1
               /\ pc' = IF col = ExpectedColumnCount THEN "store" ELSE "column"
               /\ UNCHANGED error
       IN  IF it = Len(record)
           THEN /\ Fatal([kind |-> "NotEnoughColumns", column |-> "", text |-> <<>>])
                /\ UNCHANGED <<fieldIt, col, level, experience, skipRecord, readLog>>
           ELSE LET field == record[it + 1]
                IN  /\ readLog' = Append(readLog, [type |-> type, position |-> it + 1])
                    /\ CASE type = "Level" ->
                              LET r == FieldParseInt(field, UInt8T)
                              IN  IF r.ok
                                  THEN /\ level' = NumToInt(r.value)
                                       /\ continue
                                       /\ UNCHANGED <<experience, skipRecord>>
                                  ELSE IF IsMaxLevelMarker(field)
                                  THEN /\ skipRecord' = TRUE
                                       /\ pc' = "store"
                                       /\ UNCHANGED <<fieldIt, col, level, experience, error>>
                                  ELSE /\ Fatal([kind |-> r.error, column |-> "Level",
                                                 text |-> field])
                                       /\ UNCHANGED <<fieldIt, col, level, experience,
                                                      skipRecord>>
                         [] type = "Experience" ->
                              LET r == FieldParseInt(field, UInt32T)
                              IN  IF r.ok
                                  THEN /\ experience' = r.value
                                       /\ continue
                                       /\ UNCHANGED <<level, skipRecord>>
                                  ELSE /\ Fatal([kind |-> r.error, column |-> "Experience",
                                                 text |-> field])
                                       /\ UNCHANGED <<fieldIt, col, level, experience,
                                                      skipRecord>>
                         [] OTHER ->
                              /\ continue
                              /\ UNCHANGED <<level, experience, skipRecord>>
    /\ UNCHANGED <<args, ret, levelThresholds, file, rowsRead, columns, record,
                   lastRowFor, player, query>>

\* if (!skipRecord) ExperienceData.setThresholdForLevel(level, experience);
Store ==
    /\ pc = "store"
    /\ levelThresholds' =
          IF skipRecord THEN levelThresholds
          ELSE setThresholdForLevel(levelThresholds, level, experience)
    /\ pc' = "iterate"
    /\ UNCHANGED <<args, ret, file, rowsRead, columns, locals, error, lastRowFor,
                   player, query>>

Next ==
    \/ Load
    \/ ParseHeaderStep
    \/ Clear
    \/ NextRecord
    \/ EndOfFile
    \/ Column
    \/ Store

Spec == Init /\ [][Next]_vars

(***************************************************************************)
(* Claims about ReloadExperienceData (checked under Spec).                 *)
(***************************************************************************)
\* the physical position of the header cell of the i-th definition, 0 for
\* the one before the first
DefinitionPosition(i) ==
    IF i = 0 THEN 0 ELSE PhysicalPosition(header, columns[i].type)

\* C9: for a header that is a permutation of the schema's names, the
\* ColumnDefinitions are in physical header order with skipLength =
\* position - (position of the definition before + 1), and the row loop
\* reads, for each schema column, exactly the field at the physical position
\* of that column's header; header [Experience, Level] gives
\* [Experience(skip=0), Level(skip=0)] and the first field of each row is
\* read as Experience.
C9_PhysicalOrder ==
    (CompleteHeader(header) /\ pc \notin {"start", "parseHeader"}) =>
        /\ \A i \in 1..ExpectedColumnCount :
              /\ columns[i].type = header[i]
              /\ columns[i].skipLength =
                    DefinitionPosition(i) - (DefinitionPosition(i - 1) + 1)
        /\ \A k \in 1..Len(readLog) :
              /\ readLog[k].position = PhysicalPosition(header, readLog[k].type)
              /\ header[readLog[k].position] = readLog[k].type
        /\ (pc = "store" /\ ~skipRecord) =>
              /\ \A i \in 1..ExpectedColumnCount :
                    \E k \in 1..Len(readLog) : readLog[k].type = ExperienceColumn[i]
              /\ GivesLevel(header, record)
              /\ level = LevelGiven(header, record)
              /\ experience = ExperienceGiven(header, record)
        /\ header = <<"Experience", "Level">> =>
              /\ columns = <<[type |-> "Experience", skipLength |-> 0],
                             [type |-> "Level", skipLength |-> 0]>>
              /\ readLog # <<>> => readLog[1] = [type |-> "Experience", position |-> 1]

C9_Witness ==
    /\ pc = "store" /\ ~skipRecord
    /\ header = <<"Experience", "Level">>
    /\ record = <<<<"2", "0", "0", "0">>, <<"5">>>>
    /\ experience = NumOfInt(2000)
    /\ level = 5

\* the levels (from 1) the rows of the file gave
LevelsGiven == {q[1] : q \in {r \in lastRowFor : r[1] >= 1}}

HighestLevelGiven ==
    IF LevelsGiven = {} THEN 0
    ELSE CHOOSE n \in LevelsGiven : \A m \in LevelsGiven : m <= n

\* C10: after ReloadExperienceData completes on a file (with every schema
\* column in its header) without a fatal error, for every level L >= 1 of a
\* row that is no sentinel, GetNextExperienceThresholdForLevel(L) is the
\* experience of the last such row for L; the table holds nothing else: it
\* ends at the highest level given and a level no row gave holds the filler,
\* so nothing of an earlier load survives; and if the levels are 1..N
\* without gaps, GetMaximumCharacterLevel() = N and no threshold is filler.
C10_ThresholdsLoaded ==
    (pc = "done" /\ CompleteHeader(header)) =>
        /\ \A q \in lastRowFor :
              q[1] >= 1 => GetNextExperienceThresholdForLevel(q[1]) = q[2]
        /\ Len(levelThresholds) = HighestLevelGiven
        /\ \A i \in 1..Len(levelThresholds) :
              i \notin LevelsGiven => levelThresholds[i] = UInt32Max
        /\ LevelsGiven = 1..HighestLevelGiven =>
              /\ GetMaximumCharacterLevel = HighestLevelGiven
              /\ \A i \in 1..Len(levelThresholds) :
                    <<i, levelThresholds[i]>> \in lastRowFor

C10_Witness ==
    /\ pc = "done"
    /\ header = <<"Level", "Experience">>
    /\ lastRowFor = {<<5, NumOfInt(2000)>>, <<1, NumOfInt(0)>>}
    /\ GetNextExperienceThresholdForLevel(5) = NumOfInt(2000)
    /\ levelThresholds[2] = UInt32Max
    /\ GetMaximumCharacterLevel = 5

(***************************************************************************)
(* ReloadPlayerData on bounded files.                                      *)
(*                                                                         *)
(* The headers tried are the 17 column names in declaration order, with    *)
(* the Class column moved to other positions and in reverse order, headers *)
(* with a cell that is no column name or that repeats one, and headers     *)
(* that leave columns out.  A row has one field less than the header, as   *)
(* many, or one more; its fields are numbers, except the field under the   *)
(* Class header and at most one field that is no number.                   *)
(***************************************************************************)
\* the header cells in declaration order of the columns
FullPlayerHeader == PlayerDataColumnName

\* the header with the Class cell moved to position p
ClassAt(p) ==
    [i \in 1..PlayerDataColumnCount |->
        IF i = p THEN "Class"
        ELSE IF i < p THEN FullPlayerHeader[i + 1]
        ELSE FullPlayerHeader[i]]

ReversedPlayerHeader ==
    [i \in 1..PlayerDataColumnCount |-> FullPlayerHeader[PlayerDataColumnCount + 1 - i]]

\* every column named once
CompletePlayerHeaders ==
    {ClassAt(1), ClassAt(2), ClassAt(PlayerDataColumnCount), ReversedPlayerHeader}

PlayerHeaders ==
    CompletePlayerHeaders
    \cup {[FullPlayerHeader EXCEPT ![2] = "Foo"],
          [FullPlayerHeader EXCEPT ![1] = "class"],
          [FullPlayerHeader EXCEPT ![3] = "Class"],
          <<"Class">>,
          SubSeq(FullPlayerHeader, 2, PlayerDataColumnCount),
          SubSeq(FullPlayerHeader, 1, PlayerDataColumnCount - 1)}

ClassTexts ==
    {Word("Warrior"), Word("Rogue"), Word("Barbarian"), ExpansionText, Word("warrior")}

NumberTexts == {<<"1">>, <<"2">>}

\* the positions of a row that may hold a field that is no number
BadPositions == {2, 10, PlayerDataColumnCount}

\* whether the header cell names a column read by parseFixed6
IsFixed6Name(name) ==
    \E i \in 10..PlayerDataColumnCount : PlayerDataColumnName[i] = name

\* a row of n fields under the header cells
PlayerRow(cells, n, cls, num, bad) ==
    [i \in 1..n |->
        IF i = bad THEN Word("x")
        ELSE IF i <= Len(cells) /\ cells[i] = "Class" THEN cls
        ELSE IF i <= Len(cells) /\ IsFixed6Name(cells[i]) THEN num \o <<".", "5">>
        ELSE num]

PlayerRecords(cells) ==
    {PlayerRow(cells, n, cls, num, bad) :
        n \in {Len(cells) - 1, Len(cells), Len(cells) + 1} \ {0},
        cls \in ClassTexts, num \in NumberTexts, bad \in {0} \cup BadPositions}

InitPlayerData ==
    /\ pc = "startPlayerData"
    /\ str = <<>>
    /\ hasEnd = FALSE
    /\ intT = UInt8T
    /\ min = NumericLimitsMin(UInt8T)
    /\ max = NumericLimitsMax(UInt8T)
    /\ ret = [value |-> 0, endOfParse |-> Nullptr]
    /\ levelThresholds = <<>>
    /\ \/ openOk = TRUE /\ header \in PlayerHeaders
       \/ openOk = FALSE /\ header = <<>>
    /\ rowsRead = 0
    /\ columns = [i \in 1..PlayerDataColumnCount |-> DefaultColumnDefinition]
    /\ record = <<>>
    /\ fieldIt = 0
    /\ col = 1
    /\ level = 0
    /\ experience = Num(FALSE, Mag(0, 0))
    /\ skipRecord = FALSE
    /\ error = NoError
    /\ readLog = <<>>
    /\ lastRowFor = {}
    /\ PlayerIdle
    /\ query = NoQuery

\* what ReloadPlayerData leaves alone in every step
NotOfPlayerData == <<args, ret, levelThresholds, file, level, experience, lastRowFor, query>>

\* auto dataFileResult = DataFile::load(filename); ...
LoadPlayerData ==
    /\ pc = "startPlayerData"
    /\ IF openOk
       THEN pc' = "parseHeaderPlayerData" /\ UNCHANGED error
       ELSE Fatal([kind |-> "OpenFailed", column |-> "", text |-> <<>>])
    /\ UNCHANGED <<NotOfPlayerData, rowsRead, columns, record, fieldIt, col, skipRecord,
                   readLog, player>>

\* auto parseHeaderResult = dataFile.parseHeader<PlayerDataColumn>(...); ...
ParsePlayerDataHeader ==
    /\ pc = "parseHeaderPlayerData"
    /\ LET r == parseHeader("PlayerData", header)
       IN  /\ columns' = r.columns
           /\ IF r.ok
              THEN pc' = "iteratePlayerData" /\ UNCHANGED error
              ELSE Fatal(r.error)
    /\ UNCHANGED <<NotOfPlayerData, rowsRead, record, fieldIt, col, skipRecord, readLog,
                   player>>

\* for (DataFileRecord record : dataFile) { the locals; ...
NextPlayerRecord ==
    /\ pc = "iteratePlayerData"
    /\ rowsRead < MaxPlayerRows
    /\ record' \in PlayerRecords(header)
    /\ rowsRead' = rowsRead + 1
    /\ clazz' = NoHeroClass
    /\ characterStats' = ValueInitialisedPlayerData
    /\ skipRecord' = FALSE
    /\ fieldIt' = 0
    /\ col' = 1
    /\ readLog' = <<>>
    /\ pc' = "columnPlayerData"
    /\ UNCHANGED <<NotOfPlayerData, columns, error, PlayersData>>

\* the iteration is at the end of the file
EndOfPlayerFile ==
    /\ pc = "iteratePlayerData"
    /\ pc' = "donePlayerData"
    /\ UNCHANGED <<args, ret, loader, player, query>>

\* static_cast<PlayerDataColumn>(column)
PlayerColumnType(cols, c) == cols[c].type

\* one pass of  for (auto &column : columns) { ... }
PlayerColumn ==
    /\ pc = "columnPlayerData"
    /\ LET it == FieldIteratorAdvance(fieldIt, columns[col].skipLength, record)
           type == PlayerColumnType(columns, col)
           k == PlayerDataColumnIndex(type)
           continue ==
               /\ fieldIt' = AfterField(it)
               /\ col' = col + 1
               /\ pc' = IF col = PlayerDataColumnCount THEN "storePlayerData"
                        ELSE "columnPlayerData"
               /\ UNCHANGED error
           stop(e) ==
               /\ Fatal(e)
               /\ UNCHANGED <<fieldIt, col, clazz, characterStats, skipRecord>>
       IN  IF it = Len(record)
           THEN /\ Fatal([kind |-> "NotEnoughColumns", column |-> "", text |-> <<>>])
                /\ UNCHANGED <<fieldIt, col, clazz, characterStats, skipRecord, readLog>>
           ELSE LET field == record[it + 1]
                IN  /\ readLog' = Append(readLog, [type |-> type, position |-> it + 1])
                    /\ CASE type = "Class" ->
                              IF HeroClassOfField(field) # NoHeroClass
                              THEN /\ clazz' = HeroClassOfField(field)
                                   /\ characterStats' =
                                         [characterStats EXCEPT !["className"] =
                                             HeroClass[HeroClassOfField(field) + 1]]
                                   /\ continue
                                   /\ UNCHANGED skipRecord
                              ELSE IF IsExpansionMarker(field)
                              THEN /\ skipRecord' = TRUE
                                   /\ pc' = "storePlayerData"
                                   /\ UNCHANGED <<fieldIt, col, clazz, characterStats, error>>
                              ELSE stop([kind |-> "InvalidValue", column |-> "Class",
                                         text |-> field])
                         [] k \in 2..9 ->
                              LET r == FieldParseInt(field, UInt8T)
                              IN  IF r.ok
                                  THEN /\ characterStats' =
                                             [characterStats EXCEPT ![PlayerDataMember[k]] =
                                                 NumToInt(r.value)]
                                       /\ continue
                                       /\ UNCHANGED <<clazz, skipRecord>>
                                  ELSE stop([kind |-> r.error,
                                             column |-> PlayerDataColumnName[k],
                                             text |-> field])
                         [] k \in 10..PlayerDataColumnCount ->
                              LET r == FieldParseFixed6(field)
                              IN  IF r.ok
                                  THEN /\ characterStats' =
                                             [characterStats EXCEPT ![PlayerDataMember[k]] =
                                                 r.value]
                                       /\ continue
                                       /\ UNCHANGED <<clazz, skipRecord>>
                                  ELSE stop([kind |-> r.error,
                                             column |-> PlayerDataColumnName[k],
                                             text |-> field])
                         [] OTHER ->
                              /\ continue
                              /\ UNCHANGED <<clazz, characterStats, skipRecord>>
    /\ UNCHANGED <<NotOfPlayerData, rowsRead, columns, record, PlayersData>>

\* if (!skipRecord) PlayersData[static_cast<size_t>(clazz)] = characterStats;
\* with clazz still -1 the index is the largest size_t, outside the array:
\* undefined behaviour, after which the load goes on or does not
\* mutant: the record is stored whether or not it was marked as skipped
StorePlayerDataAlways ==
    /\ pc = "storePlayerData"
    /\ IF clazz \in DOMAIN PlayersData
       THEN /\ PlayersData' = [PlayersData EXCEPT ![clazz] = characterStats]
            /\ pc' = "iteratePlayerData"
       ELSE /\ pc' \in {"iteratePlayerData", "undefined"}
            /\ UNCHANGED PlayersData
    /\ UNCHANGED <<NotOfPlayerData, rowsRead, columns, record, fieldIt, col, skipRecord,
                   error, readLog, clazz, characterStats>>

StorePlayerData ==
    /\ pc = "storePlayerData"
    /\ IF skipRecord
       THEN /\ pc' = "iteratePlayerData"
            /\ UNCHANGED PlayersData
       ELSE IF clazz \in DOMAIN PlayersData
       THEN /\ PlayersData' = [PlayersData EXCEPT ![clazz] = characterStats]
            /\ pc' = "iteratePlayerData"
       ELSE /\ pc' \in {"iteratePlayerData", "undefined"}
            /\ UNCHANGED PlayersData
    /\ UNCHANGED <<NotOfPlayerData, rowsRead, columns, record, fieldIt, col, skipRecord,
                   error, readLog, clazz, characterStats>>

NextPlayerData ==
    \/ LoadPlayerData
    \/ ParsePlayerDataHeader
    \/ NextPlayerRecord
    \/ EndOfPlayerFile
    \/ PlayerColumn
    \/ StorePlayerData

SpecPlayerData == InitPlayerData /\ [][NextPlayerData]_vars

(***************************************************************************)
(* LoadPlayerDataFiles runs both loaders; a run of the model is a run of   *)
(* one of them.                                                            *)
(***************************************************************************)
InitLoad == Init \/ InitPlayerData

NextLoad == Next \/ NextPlayerData

SpecLoad == InitLoad /\ [][NextLoad]_vars

(***************************************************************************)
(* Claims about both loaders (checked under SpecLoad).                     *)
(***************************************************************************)
\* the position of the field of the current row that lies under the header
\* cell called name, 0 if the header has no such cell or the row is too short
FieldUnder(name) ==
    IF \E j \in 1..Len(header) : header[j] = name /\ j <= Len(record)
    THEN CHOOSE j \in 1..Len(header) : header[j] = name /\ j <= Len(record)
    ELSE 0

InExperienceRow == pc \in {"column", "store"}

InPlayerRow == pc \in {"columnPlayerData", "storePlayerData"}

\* the row being processed is a sentinel row
SentinelRow ==
    \/ /\ InExperienceRow
       /\ FieldUnder("Level") # 0
       /\ record[FieldUnder("Level")] = MaxLevelText
    \/ /\ InPlayerRow
       /\ FieldUnder("Class") # 0
       /\ record[FieldUnder("Class")] = ExpansionText

SentinelPosition ==
    IF InExperienceRow THEN FieldUnder("Level") ELSE FieldUnder("Class")

\* C11: while and after a row is processed whose Level field is exactly
\* "MaxLevel" (ReloadExperienceData) or whose Class field is exactly
\* "Expansion" (ReloadPlayerData), no level threshold, not the maximum level
\* and no PlayersData entry changes; the step that reads the sentinel field
\* marks the row as skipped and reports no fatal error, the row then ends
\* without a store and the loop is at the next row; and no fatal error is
\* ever reported for the sentinel field.
C11_SentinelRowSkipped ==
    [][SentinelRow =>
          /\ levelThresholds' = levelThresholds
          /\ getMaxLevel(levelThresholds') = getMaxLevel(levelThresholds)
          /\ PlayersData' = PlayersData
          /\ (/\ Len(readLog') = Len(readLog) + 1
              /\ readLog'[Len(readLog')].position = SentinelPosition) =>
                /\ skipRecord'
                /\ error' = NoError
                /\ pc' = IF InExperienceRow THEN "store" ELSE "storePlayerData"
          /\ pc \in {"store", "storePlayerData"} =>
                /\ skipRecord
                /\ error' = NoError
                /\ pc' = IF InExperienceRow THEN "iterate" ELSE "iteratePlayerData"
          /\ pc' = "fatal" =>
                ~(/\ error'.text = record[SentinelPosition]
                  /\ error'.column \in {"Level", "Class"})
      ]_vars

\* an "Expansion" row after a row that stored the Warrior's data
C11_Witness ==
    /\ pc = "storePlayerData" /\ skipRecord
    /\ header = ClassAt(2)
    /\ record[2] = ExpansionText
    /\ error = NoError
    /\ PlayersData[0] # ValueInitialisedPlayerData

\* the number of columns the running loader walks through for each row
ColumnsWalked == IF InPlayerRow THEN PlayerDataColumnCount ELSE ExpectedColumnCount

\* the field cursor, advanced by the skipLength of the column at hand, is at
\* the end of the row
CursorAtEnd ==
    /\ pc \in {"column", "columnPlayerData"}
    /\ fieldIt + columns[col].skipLength >= Len(record)

\* C12: in every row of either loader, when the cursor is at the end after
\* the advance by a column's skipLength, that step reports the fatal error
\* NotEnoughColumns and dereferences nothing; no field is ever dereferenced
\* beyond the row; nothing happens after the report, so the row is not
\* stored, and a row reaches the store (not skipped) only with at least as
\* many fields as the loader has columns.
C12_NotEnoughColumns ==
    [][/\ CursorAtEnd =>
             /\ pc' = "fatal"
             /\ error' = [kind |-> "NotEnoughColumns", column |-> "", text |-> <<>>]
             /\ readLog' = readLog
             /\ levelThresholds' = levelThresholds
             /\ PlayersData' = PlayersData
       /\ \A k \in 1..Len(readLog') : readLog'[k].position <= Len(record')
       /\ pc # "fatal"
       /\ (pc \in {"store", "storePlayerData"} /\ ~skipRecord) =>
             Len(record) >= ColumnsWalked
      ]_vars

\* "5" alone under the header Level, Experience
C12_Witness ==
    /\ pc = "fatal"
    /\ error.kind = "NotEnoughColumns"
    /\ header = <<"Level", "Experience">>
    /\ record = <<<<"5">>>>
    /\ level = 5
    /\ Len(readLog) = 1

\* the column names of the running loader's schema, as the header spells them
SchemaNames ==
    IF Len(columns) = PlayerDataColumnCount
    THEN {"Class", "Base Strength", "Base Magic", "Base Dexterity", "Base Vitality",
          "Maximum Strength", "Maximum Magic", "Maximum Dexterity", "Maximum Vitality",
          "Base Life", "Base Mana", "Life Per Level", "Mana Per Level",
          "Life Per Player Stat", "Mana Per Player Stat",
          "Life Per Item Stat", "Mana Per Item Stat"}
    ELSE {"Level", "Experience"}

\* the header cell at position j is no column name, and no cell before it is
\* one or repeats a cell
FirstOffenceIsUnknownAt(j) ==
    /\ j \in 1..Len(header)
    /\ header[j] \notin SchemaNames
    /\ \A i \in 1..(j - 1) :
          /\ header[i] \in SchemaNames
          /\ \A h \in 1..(i - 1) : header[h] # header[i]

BeforeRows == pc \in {"start", "parseHeader", "startPlayerData", "parseHeaderPlayerData"}

\* C13: the mapper gives UnknownColumn for every text that is not exactly a
\* column name ("level", "Foo"); a header with such a cell ends the load in
\* the fatal error UnknownColumn naming that cell (the first offending cell
\* of the header), before ExperienceData is cleared and before any row is
\* read: up to the report neither levelThresholds nor PlayersData changes,
\* and nothing happens after it.
C13_UnknownColumnIsFatal ==
    [][/\ \A name \in HeaderNames \ {"Level", "Experience"} :
             /\ ~mapExperienceColumnFromName(name).ok
             /\ mapExperienceColumnFromName(name).error = "UnknownColumn"
       /\ BeforeRows =>
             /\ levelThresholds' = levelThresholds
             /\ PlayersData' = PlayersData
             /\ rowsRead' = 0
       /\ \A j \in 1..Len(header) :
             (pc \in {"parseHeader", "parseHeaderPlayerData"}
                 /\ FirstOffenceIsUnknownAt(j)) =>
                 /\ pc' = "fatal"
                 /\ error' = [kind |-> "UnknownColumn", column |-> header[j],
                              text |-> <<>>]
       /\ (\E j \in 1..Len(header) : header[j] \notin SchemaNames) => BeforeRows
      ]_vars

\* the header level, Experience after an earlier load
C13_Witness ==
    /\ pc = "fatal"
    /\ header = <<"level", "Experience">>
    /\ error = [kind |-> "UnknownColumn", column |-> "level", text |-> <<>>]
    /\ levelThresholds = EarlierThresholds
    /\ rowsRead = 0

\* texts that denote a value of the destination, told without the parsers
ValidUInt8Text(t) == IsNumber(t) /\ Len(t) <= 4 /\ DecimalValue(t) <= 255

ValidUInt32Text(t) == IsNumber(t) /\ Len(t) <= 9

\* an integer part, alone or followed by a point and digits
ValidFixed6Text(t) ==
    \E k \in 1..Len(t) :
        /\ IsNumber(SubSeq(t, 1, k)) /\ k <= 4
        /\ DecimalValue(SubSeq(t, 1, k)) <= 127
        /\ \/ k = Len(t)
           \/ t[k + 1] = "." /\ AllDigits(SubSeq(t, k + 2, Len(t)))

\* whether the text is accepted for a column of the given type
ValidFor(type, t) ==
    CASE type = "Level" -> ValidUInt8Text(t)
      [] type = "Experience" -> ValidUInt32Text(t)
      [] type = "Class" ->
            t \in {Word("Warrior"), Word("Rogue"), Word("Sorcerer"),
                   Word("Monk"), Word("Bard"), Word("Barbarian")}
      [] type \in {"BaseStrength", "BaseMagic", "BaseDexterity", "BaseVitality",
                   "MaximumStrength", "MaximumMagic", "MaximumDexterity",
                   "MaximumVitality"} -> ValidUInt8Text(t)
      [] type \in {"LifeAdjustment", "ManaAdjustment", "LifePerLevel", "ManaPerLevel",
                   "LifePerStat", "ManaPerStat", "LifeItemBonus", "ManaItemBonus"} ->
            ValidFixed6Text(t)
      [] OTHER -> TRUE

SentinelFor(type, t) ==
    \/ type = "Level" /\ t = MaxLevelText
    \/ type = "Class" /\ t = ExpansionText

\* the header has a cell that is no column name or repeats an earlier cell
HeaderFailsToResolve ==
    \E j \in 1..Len(header) :
        \/ header[j] \notin SchemaNames
        \/ \E i \in 1..(j - 1) : header[i] = header[j]

\* the column loop is about to read a field that its column does not accept
\* and that is no sentinel
OffendingFieldAhead ==
    /\ pc \in {"column", "columnPlayerData"}
    /\ ~CursorAtEnd
    /\ LET t == record[fieldIt + columns[col].skipLength + 1]
       IN  /\ ~ValidFor(columns[col].type, t)
           /\ ~SentinelFor(columns[col].type, t)

\* C14: every structural error of a load is fatal.  A file that does not
\* open, a header that does not resolve, a row that runs out of fields, a
\* field its column does not accept and that is no sentinel (a Class value
\* that is none of the six classes included): the step that meets it reports
\* the error and ends the load without changing levelThresholds or
\* PlayersData; every report ends the load; after the report no step happens
\* at all (no field, no row, no store); and a row reaches the store only if
\* every field read from it was accepted.
C14_StructuralErrorsAreFatal ==
    [][/\ pc # "fatal"
       /\ (pc \in {"start", "startPlayerData"} /\ ~openOk) =>
             (pc' = "fatal" /\ error'.kind = "OpenFailed")
       /\ (pc \in {"parseHeader", "parseHeaderPlayerData"} /\ HeaderFailsToResolve) =>
             (pc' = "fatal" /\ error'.kind \in {"UnknownColumn", "DuplicateColumn"})
       /\ CursorAtEnd =>
             (pc' = "fatal" /\ error'.kind = "NotEnoughColumns")
       /\ OffendingFieldAhead =>
             /\ pc' = "fatal"
             /\ error'.kind \in {"ParseError", "OutOfRange", "InvalidValue"}
             /\ error'.text = record[fieldIt + columns[col].skipLength + 1]
       /\ error' # NoError => pc' = "fatal"
       /\ pc' = "fatal" =>
             /\ levelThresholds' = levelThresholds
             /\ PlayersData' = PlayersData
       /\ (pc \in {"store", "storePlayerData"} /\ ~skipRecord) =>
             \A k \in 1..Len(readLog) :
                 ValidFor(readLog[k].type, record[readLog[k].position])
      ]_vars

\* a row of class "warrior" after a row that stored the Warrior's data
C14_Witness ==
    /\ pc = "fatal"
    /\ error = [kind |-> "InvalidValue", column |-> "Class", text |-> Word("warrior")]
    /\ rowsRead = 2
    /\ PlayersData[0]["className"] = "Warrior"
    /\ \A c \in 1..5 : PlayersData[c] = ValueInitialisedPlayerData

(***************************************************************************)
(* Claims about the store of ReloadPlayerData                              *)
(***************************************************************************)
HeaderNamesClass == \E j \in 1..Len(header) : header[j] = "Class"

=============================================================================
